---- MODULE Spec2Model ----
(***************************************************************************)
(* The notebook tensorflow_keras_CIFAR10.ipynb as a state machine.         *)
(*                                                                         *)
(* The state is the kernel's namespace (inputs, estimator, predictor), the *)
(* position of the run in the list of code cells, and the part of the AWS  *)
(* account the cells act on (default bucket, training jobs, endpoints).    *)
(* There is one action per code cell; a cell either returns or raises, and *)
(* a raise stops the run.  The model function keras_model_fn and the       *)
(* serving input function are operators; a second specification, ModelSpec,*)
(* pushes an image shape through the layer stack one layer at a time.      *)
(***************************************************************************)
EXTENDS Integers, Sequences, FiniteSets, TLC

VARIABLES
    pc,          \* index in CodeCells of the next cell to run
    raised,      \* TRUE once a cell has raised: the run has stopped
    calls,       \* history: the cells started so far, in order, with outcome
    session,     \* sagemaker_session and role are bound (cell 1)
    downloaded,  \* /tmp/cifar10_data holds the dataset (cell 2)
    bucket,      \* the account's default bucket exists
    inputs,      \* kernel name `inputs`: Unbound or <<S3 uri>>
    estimator,   \* kernel name `estimator`: Unbound or <<record>>
    jobs,        \* training jobs submitted by the notebook
    predictor,   \* kernel name `predictor`: Unbound or <<record>>
    endpoints,   \* endpoints existing in the account
    created,     \* history: endpoints estimator.deploy created
    predictions, \* history: the requests predictor.predict sent, with responses
    deleted,     \* history: the endpoints delete_endpoint removed
    image,       \* ModelSpec: the input shape given to the layer stack
    layer_no,    \* ModelSpec: number of layers applied so far
    tensor       \* ModelSpec: shape after layer_no layers (Invalid on error)

vars == <<pc, raised, calls, session, downloaded, bucket, inputs, estimator,
          jobs, predictor, endpoints, created, predictions, deleted,
          image, layer_no, tensor>>

----------------------------------------------------------------------------
(* Bounds of the model *)

\* endpoint names the account may hold: 1..MaxEndpointNames
MaxEndpointNames == 3
\* training job names the SDK may generate: 1..MaxJobNames
MaxJobNames == 2
\* ModelSpec draws image sides from 1..MaxSide and depths from 1..MaxDepth
MaxSide == 33
MaxDepth == 3

EndpointNames == 1..MaxEndpointNames
JobNames == 1..MaxJobNames

----------------------------------------------------------------------------
(* Constants of cifar10_cnn.py, the script the notebook prints and submits *)

HEIGHT == 32
WIDTH == 32
DEPTH == 3
NUM_CLASSES == 10
INPUT_TENSOR_NAME == "inputs_input"

\* the free batch dimension of a placeholder shape
None == 0
\* a kernel name that is not bound
Unbound == << >>
\* the shape of a tensor no layer could produce (the framework raises)
Invalid == << >>

\* tensorflow's signature_constants.PREDICT_INPUTS, the name the notebook's
\* note gives for the first layer
PREDICT_INPUTS == "inputs"

----------------------------------------------------------------------------
(* keras_model_fn *)

Conv2D(filters, kernel, padding, name) ==
    [kind |-> "Conv2D", n |-> filters, k |-> kernel, padding |-> padding, name |-> name]
Activation(fn) ==
    [kind |-> "Activation", n |-> 0, k |-> 0, padding |-> "", name |-> fn]
MaxPooling2D(pool) ==
    [kind |-> "MaxPooling2D", n |-> 0, k |-> pool, padding |-> "valid", name |-> ""]
\* the rate in percent
Dropout(rate) ==
    [kind |-> "Dropout", n |-> rate, k |-> 0, padding |-> "", name |-> ""]
Flatten ==
    [kind |-> "Flatten", n |-> 0, k |-> 0, padding |-> "", name |-> ""]
Dense(units) ==
    [kind |-> "Dense", n |-> units, k |-> 0, padding |-> "", name |-> ""]

\* the first layer left with the name Keras gives a layer without name=
FirstLayerNameDefault == "conv2d_1"

\* name= of the first model.add
FirstLayerName == "inputs"

\* input_shape= of the first model.add
InputShape == <<HEIGHT, WIDTH, DEPTH>>

\* the model.add calls, in order
KerasLayers ==
    << Conv2D(32, 3, "same", FirstLayerName),
       Activation("relu"),
       Conv2D(32, 3, "valid", ""),
       Activation("relu"),
       MaxPooling2D(2),
       Dropout(25),
       Conv2D(64, 3, "same", ""),
       Activation("relu"),
       Conv2D(64, 3, "valid", ""),
       Activation("relu"),
       MaxPooling2D(2),
       Dropout(25),
       Flatten,
       Dense(512),
       Activation("relu"),
       Dropout(50),
       Dense(NUM_CLASSES),
       Activation("softmax") >>

\* a 'valid' convolution that loses one pixel too many
conv_output_length_short(input_length, filter_size, padding) ==
    IF padding = "same" THEN input_length ELSE input_length - filter_size

\* the side a convolution window of `filter_size` (stride 1) leaves of a side
conv_output_length(input_length, filter_size, padding) ==
    IF padding = "same" THEN input_length ELSE input_length - filter_size + 1

\* the side a pooling window of `pool_size` (stride pool_size) leaves of a side
pool_output_length(input_length, pool_size) == input_length \div pool_size

\* the output shape (batch dimension left out) of one layer applied to `shape`
LayerOutput(layer, shape) ==
    IF shape = Invalid THEN Invalid
    ELSE IF layer.kind = "Conv2D" THEN
        IF Len(shape) # 3 THEN Invalid
        ELSE IF \E i \in 1..2 : conv_output_length(shape[i], layer.k, layer.padding) < 1
             THEN Invalid
        ELSE <<conv_output_length(shape[1], layer.k, layer.padding),
               conv_output_length(shape[2], layer.k, layer.padding),
               layer.n>>
    ELSE IF layer.kind = "MaxPooling2D" THEN
        IF Len(shape) # 3 THEN Invalid
        ELSE IF \E i \in 1..2 : pool_output_length(shape[i], layer.k) < 1
             THEN Invalid
        ELSE <<pool_output_length(shape[1], layer.k),
               pool_output_length(shape[2], layer.k),
               shape[3]>>
    ELSE IF layer.kind = "Flatten" THEN
        IF Len(shape) # 3 THEN Invalid
        ELSE <<shape[1] * shape[2] * shape[3]>>
    ELSE IF layer.kind = "Dense" THEN
        [i \in 1..Len(shape) |-> IF i = Len(shape) THEN layer.n ELSE shape[i]]
    ELSE shape

\* the output shape of the first n layers of `layers` applied to `shape`
RECURSIVE ForwardShape(_, _, _)
ForwardShape(layers, n, shape) ==
    IF n = 0 THEN shape
    ELSE LayerOutput(layers[n], ForwardShape(layers, n - 1, shape))

\* the keys keras_model_fn looks up in `hyperparameters`
ReadKeys == {"learning_rate", "decay"}

\* keras_model_fn(hyperparameters): the compiled model, or a KeyError
keras_model_fn(hyperparameters) ==
    IF ReadKeys \subseteq DOMAIN hyperparameters
    THEN [ok |-> TRUE,
          layers |-> KerasLayers,
          input_shape |-> InputShape,
          input_name |-> FirstLayerName \o "_input",
          opt |-> [learning_rate |-> hyperparameters["learning_rate"],
                   decay |-> hyperparameters["decay"]]]
    ELSE [ok |-> FALSE,
          layers |-> << >>,
          input_shape |-> Invalid,
          input_name |-> "",
          opt |-> [learning_rate |-> << >>, decay |-> << >>]]

----------------------------------------------------------------------------
(* serving_input_fn *)

\* shape= of the placeholder
PlaceholderShape == <<None, HEIGHT, WIDTH, DEPTH>>

\* serving_input_fn(params): the receiver's inputs, key -> placeholder shape
serving_input_fn == [key \in {INPUT_TENSOR_NAME} |-> PlaceholderShape]

\* data of shape `shape` can be fed to a placeholder of shape `placeholder`
Fits(shape, placeholder) ==
    /\ Len(shape) = Len(placeholder)
    /\ \A i \in 1..Len(shape) : placeholder[i] = None \/ placeholder[i] = shape[i]


----------------------------------------------------------------------------
(* The notebook's code cells *)

\* the deploy cell placed above the fit cell
CodeCellsDeployFirst ==
    << "session", "download", "upload_data", "cat", "keras_model_fn",
       "input_fns", "deploy", "fit", "predict", "delete_endpoint" >>

\* the code cells, top to bottom
CodeCells ==
    << "session", "download", "upload_data", "cat", "keras_model_fn",
       "input_fns", "fit", "deploy", "predict", "delete_endpoint" >>

\* key_prefix= of upload_data
KeyPrefix == "data/DEMO-cifar10"

\* 1e-4 and 1e-6, as <<mantissa, decimal exponent>>
LearningRate == <<1, -4>>
Decay == <<1, -6>>

\* the mapping without its 'decay' entry
HyperparametersNoDecay == ("learning_rate" :> LearningRate)

\* hyperparameters= of the TensorFlow estimator
Hyperparameters == ("learning_rate" :> LearningRate) @@ ("decay" :> Decay)

\* a distributed training job
TrainInstanceCountTwo == 1 + 1

\* train_instance_count= of the TensorFlow estimator
TrainInstanceCount == 1

\* TensorFlow(entry_point='cifar10_cnn.py', ...)
TensorFlow ==
    [entry_point |-> "cifar10_cnn.py",
     hyperparameters |-> Hyperparameters,
     train_instance_count |-> TrainInstanceCount,
     latest_job |-> Unbound]

\* the fake data laid out channels-first
DataShapeChannelsFirst == <<1, 3, 32, 32>>

\* np.random.randn(1, 32, 32, 3): the shape of the fake prediction data
DataShape == <<1, 32, 32, 3>>

\* the request keyed by the first layer's own name
RequestKeyInputs == "inputs"

\* the key of the dict given to predictor.predict
RequestKey == "inputs_input"

\* delete_endpoint given a fixed endpoint name instead of the predictor's
DeletedEndpointFixed(p) == 1

\* the argument of delete_endpoint
DeletedEndpoint(p) == p.endpoint

\* the run is at cell `cell`: every cell above it has returned
AtCell(cell) ==
    /\ ~raised
    /\ pc \in 1..Len(CodeCells)
    /\ CodeCells[pc] = cell

\* the cell returns: the run moves to the next cell
Return(cell) ==
    /\ pc' = pc + 1
    /\ raised' = raised
    /\ calls' = Append(calls, [op |-> cell, ok |-> TRUE])

\* the exception is swallowed and the run goes on with the next cell
RaiseAndContinue(cell) ==
    /\ pc' = pc + 1
    /\ raised' = FALSE
    /\ calls' = Append(calls, [op |-> cell, ok |-> FALSE])

\* the cell raises: the exception surfaces and the run stops
Raise(cell) ==
    /\ pc' = pc
    /\ raised' = TRUE
    /\ calls' = Append(calls, [op |-> cell, ok |-> FALSE])

\* sagemaker_session = sagemaker.Session(); role = get_execution_role()
SessionCell ==
    /\ AtCell("session")
    /\ \/ session' = TRUE /\ Return("session")
       \/ session' = session /\ Raise("session")
    /\ UNCHANGED <<downloaded, bucket, inputs, estimator, jobs, predictor,
                   endpoints, created, predictions, deleted, image, layer_no, tensor>>

\* utils.cifar10_download()
DownloadCell ==
    /\ AtCell("download")
    /\ \/ downloaded' = TRUE /\ Return("download")
       \/ downloaded' = downloaded /\ Raise("download")
    /\ UNCHANGED <<session, bucket, inputs, estimator, jobs, predictor,
                   endpoints, created, predictions, deleted, image, layer_no, tensor>>

\* inputs = sagemaker_session.upload_data(path=..., key_prefix=...)
UploadCell ==
    /\ AtCell("upload_data")
    /\ \/ /\ session /\ downloaded
          /\ bucket' = TRUE
          /\ inputs' = <<KeyPrefix>>
          /\ Return("upload_data")
       \/ /\ bucket' \in (IF session THEN {bucket, TRUE} ELSE {bucket})
          /\ inputs' = inputs
          /\ Raise("upload_data")
    /\ UNCHANGED <<session, downloaded, estimator, jobs, predictor,
                   endpoints, created, predictions, deleted, image, layer_no, tensor>>

\* !cat cifar10_cnn.py
CatCell ==
    /\ AtCell("cat")
    /\ Return("cat")
    /\ UNCHANGED <<session, downloaded, bucket, inputs, estimator, jobs,
                   predictor, endpoints, created, predictions,
                   deleted, image, layer_no, tensor>>

\* def keras_model_fn(hyperparameters): ...
ModelFnCell ==
    /\ AtCell("keras_model_fn")
    /\ Return("keras_model_fn")
    /\ UNCHANGED <<session, downloaded, bucket, inputs, estimator, jobs,
                   predictor, endpoints, created, predictions,
                   deleted, image, layer_no, tensor>>

\* def serving_input_fn / train_input_fn / eval_input_fn
InputFnsCell ==
    /\ AtCell("input_fns")
    /\ Return("input_fns")
    /\ UNCHANGED <<session, downloaded, bucket, inputs, estimator, jobs,
                   predictor, endpoints, created, predictions,
                   deleted, image, layer_no, tensor>>

\* the training job estimator.fit(inputs) submits; it runs keras_model_fn on
\* the submitted hyperparameters and exports the model with serving_input_fn
TrainingJob(name, est, channel, completed) ==
    LET model == keras_model_fn(est.hyperparameters) IN
    [name |-> name,
     instance_count |-> est.train_instance_count,
     hyperparameters |-> est.hyperparameters,
     inputs |-> channel,
     built |-> model.ok,
     first_layer |-> IF model.ok THEN model.layers[1].name ELSE "",
     input_name |-> model.input_name,
     input_shape |-> model.input_shape,
     signature |-> serving_input_fn,
     opt |-> model.opt,
     status |-> IF model.ok /\ completed THEN "Completed" ELSE "Failed"]

\* estimator = TensorFlow(...); estimator.fit(inputs)
FitCell ==
    /\ AtCell("fit")
    /\ \/ /\ estimator' \in (IF session THEN {estimator, <<TensorFlow>>} ELSE {estimator})
          /\ jobs' = jobs
          /\ Raise("fit")
       \/ /\ session /\ inputs # Unbound
          /\ \E name \in JobNames \ {j.name : j \in jobs}, completed \in BOOLEAN :
                LET job == TrainingJob(name, TensorFlow, inputs[1], completed) IN
                /\ jobs' = jobs \cup {job}
                /\ IF job.status = "Completed"
                   THEN /\ estimator' = <<[TensorFlow EXCEPT !.latest_job = <<name>>]>>
                        /\ Return("fit")
                   ELSE /\ estimator' = <<TensorFlow>>
                        /\ Raise("fit")
    /\ UNCHANGED <<session, downloaded, bucket, inputs, predictor,
                   endpoints, created, predictions, deleted, image, layer_no, tensor>>

\* predictor = estimator.deploy(initial_instance_count=1, instance_type=...)
DeployCell ==
    /\ AtCell("deploy")
    /\ \/ /\ estimator # Unbound /\ estimator[1].latest_job # Unbound
          /\ \E n \in EndpointNames \ endpoints :
                /\ endpoints' = endpoints \cup {n}
                /\ created' = created \cup {n}
                /\ predictor' = <<[endpoint |-> n]>>
          /\ Return("deploy")
       \/ /\ estimator # Unbound /\ estimator[1].latest_job # Unbound
          /\ \E n \in EndpointNames \ endpoints :
                /\ endpoints' = endpoints \cup {n}
                /\ created' = created \cup {n}
                /\ predictor' = predictor
          /\ Raise("deploy")
       \/ /\ UNCHANGED <<predictor, endpoints, created>>
          /\ Raise("deploy")
    /\ UNCHANGED <<session, downloaded, bucket, inputs, estimator, jobs,
                   predictions, deleted, image, layer_no, tensor>>

\* the request key names an input of the served model's signature
Addresses(key) == key \in DOMAIN serving_input_fn

\* the endpoint's answer to a request: one row of scores per image
Response(shape) ==
    <<shape[1]>> \o ForwardShape(KerasLayers, Len(KerasLayers), Tail(shape))

\* data = np.random.randn(1, 32, 32, 3); predictor.predict({'inputs_input': data})
PredictCell ==
    /\ AtCell("predict")
    /\ \/ /\ predictor # Unbound
          /\ predictor[1].endpoint \in endpoints
          /\ Addresses(RequestKey)
          /\ Fits(DataShape, serving_input_fn[RequestKey])
          /\ predictions' = Append(predictions,
                [endpoint |-> predictor[1].endpoint,
                 key |-> RequestKey,
                 shape |-> DataShape,
                 response |-> Response(DataShape)])
          /\ Return("predict")
       \/ /\ predictions' =
                IF predictor = Unbound THEN predictions
                ELSE Append(predictions,
                        [endpoint |-> predictor[1].endpoint,
                         key |-> RequestKey,
                         shape |-> DataShape,
                         response |-> Invalid])
          /\ Raise("predict")
    /\ UNCHANGED <<session, downloaded, bucket, inputs, estimator, jobs,
                   predictor, endpoints, created, deleted, image, layer_no, tensor>>

\* sagemaker.Session().delete_endpoint(predictor.endpoint)
DeleteCell ==
    /\ AtCell("delete_endpoint")
    /\ \/ /\ session /\ predictor # Unbound
          /\ DeletedEndpoint(predictor[1]) \in endpoints
          /\ endpoints' = endpoints \ {DeletedEndpoint(predictor[1])}
          /\ deleted' = deleted \cup {DeletedEndpoint(predictor[1])}
          /\ Return("delete_endpoint")
       \/ /\ UNCHANGED <<endpoints, deleted>>
          /\ Raise("delete_endpoint")
    /\ UNCHANGED <<session, downloaded, bucket, inputs, estimator, jobs,
                   predictor, created, predictions, image, layer_no, tensor>>

\* a fresh kernel; the account may already hold endpoints and the bucket, and
\* the dataset may be on disk from an earlier run
Init ==
    /\ pc = 1
    /\ raised = FALSE
    /\ calls = << >>
    /\ session = FALSE
    /\ downloaded \in BOOLEAN
    /\ bucket \in BOOLEAN
    /\ inputs = Unbound
    /\ estimator = Unbound
    /\ jobs = {}
    /\ predictor = Unbound
    /\ endpoints \in SUBSET EndpointNames
    /\ created = {}
    /\ predictions = << >>
    /\ deleted = {}
    /\ image = InputShape
    /\ layer_no = 0
    /\ tensor = InputShape

Next ==
    \/ SessionCell
    \/ DownloadCell
    \/ UploadCell
    \/ CatCell
    \/ ModelFnCell
    \/ InputFnsCell
    \/ FitCell
    \/ DeployCell
    \/ PredictCell
    \/ DeleteCell

Spec == Init /\ [][Next]_vars

----------------------------------------------------------------------------
(* The layer stack, one layer at a time *)

\* the model is built for an input shape and fed one image of that shape
ModelInit ==
    /\ pc = 1
    /\ raised = FALSE
    /\ calls = << >>
    /\ session = FALSE
    /\ downloaded = FALSE
    /\ bucket = FALSE
    /\ inputs = Unbound
    /\ estimator = Unbound
    /\ jobs = {}
    /\ predictor = Unbound
    /\ endpoints = {}
    /\ created = {}
    /\ predictions = << >>
    /\ deleted = {}
    /\ image \in {<<h, w, d>> : h \in 1..MaxSide, w \in 1..MaxSide, d \in 1..MaxDepth}
    /\ layer_no = 0
    /\ tensor = image

\* the next layer of the stack is applied to the tensor
ApplyLayer ==
    /\ layer_no < Len(KerasLayers)
    /\ tensor # Invalid
    /\ tensor' = LayerOutput(KerasLayers[layer_no + 1], tensor)
    /\ layer_no' = layer_no + 1
    /\ UNCHANGED <<image, pc, raised, calls, session, downloaded, bucket,
                   inputs, estimator, jobs, predictor, endpoints, created,
                   predictions, deleted>>

ModelNext == ApplyLayer

ModelSpec == ModelInit /\ [][ModelNext]_vars

----------------------------------------------------------------------------
(* Properties of the notebook run (Spec) *)

\* the run is complete: every code cell has returned
Done == pc = Len(CodeCells) + 1 /\ ~raised

\* cell `op` has been started
Called(op) == \E i \in 1..Len(calls) : calls[i].op = op

\* cell `op` has returned
Returned(op) == \E i \in 1..Len(calls) : calls[i].op = op /\ calls[i].ok

\* the seven steps of the flow, in the order the flow is described
StepOrder ==
    << "session", "download", "upload_data", "fit", "deploy", "predict",
       "delete_endpoint" >>

IsStep(c) == \E i \in 1..Len(StepOrder) : StepOrder[i] = c.op

\* C1: the steps started so far are the first steps of the fixed order
\* session, download, upload_data, fit, deploy, predict, delete_endpoint, each
\* started only after the one before it returned; fit is started only with
\* `inputs` bound by upload_data, deploy only with the fitted job completed,
\* predict only with a predictor returned by deploy, and delete_endpoint only
\* after predict.
C1_LinearOrder ==
    LET steps == SelectSeq(calls, IsStep) IN
    /\ Len(steps) <= Len(StepOrder)
    /\ \A i \in 1..Len(steps) : steps[i].op = StepOrder[i]
    /\ \A i \in 1..(Len(steps) - 1) : steps[i].ok
    /\ Called("fit") => Returned("upload_data") /\ inputs # Unbound
    /\ Called("deploy") =>
          /\ Returned("fit")
          /\ estimator # Unbound
          /\ \E j \in jobs : j.status = "Completed" /\ estimator[1].latest_job = <<j.name>>
    /\ Called("predict") => Returned("deploy") /\ predictor # Unbound
    /\ Called("delete_endpoint") => Returned("predict")

\* a complete run: all ten cells returned, in order
C1_Witness ==
    /\ Done
    /\ Len(calls) = Len(CodeCells)
    /\ Returned("delete_endpoint")

\* C2: in a complete run exactly one endpoint was created, exactly one
\* prediction was issued, against that endpoint, delete_endpoint removed that
\* endpoint and no other, and no endpoint the notebook created still exists.
C2_OneEndpointCreatedAndRemoved ==
    Done =>
        /\ Cardinality(created) = 1
        /\ Len(predictions) = 1
        /\ created = {predictions[1].endpoint}
        /\ created = {predictor[1].endpoint}
        /\ deleted = created
        /\ created \cap endpoints = {}

\* a complete run, its one request answered with ten scores, in an account
\* that held another endpoint before and after
C2_Witness ==
    /\ Done
    /\ created # {}
    /\ endpoints # {}
    /\ predictions # << >>
    /\ predictions[1].response = <<1, 10>>

\* C3: the estimator and every training job submitted have exactly one
\* training instance.
C3_SingleInstance ==
    /\ estimator # Unbound => estimator[1].train_instance_count = 1
    /\ \A j \in jobs : j.instance_count = 1

\* a training job has been submitted and has completed
C3_Witness == \E j \in jobs : j.status = "Completed" /\ j.instance_count = 1

\* C4: the key of the prediction request is the name of the input layer of
\* the model every job builds (the first layer's name followed by '_input'),
\* it is INPUT_TENSOR_NAME, the only key of the exported serving signature,
\* and every request sent carries it.
C4_RequestKeyMatchesInputLayer ==
    /\ \A j \in jobs :
          /\ j.built
          /\ j.input_name = j.first_layer \o "_input"
          /\ RequestKey = j.input_name
          /\ DOMAIN j.signature = {RequestKey}
    /\ RequestKey = INPUT_TENSOR_NAME
    /\ \A i \in 1..Len(predictions) : predictions[i].key = "inputs_input"

\* a request keyed 'inputs_input' has been answered by the endpoint
C4_Witness ==
    /\ Returned("predict")
    /\ \E i \in 1..Len(predictions) :
          /\ predictions[i].key = "inputs_input"
          /\ predictions[i].response # Invalid

\* C5: the first layer of the model every job builds is named PREDICT_INPUTS.
C5_FirstLayerNamedPredictInputs ==
    \A j \in jobs : j.built /\ j.first_layer = PREDICT_INPUTS

\* a job has built the model
C5_Witness == \E j \in jobs : j.built /\ j.first_layer # ""

\* C6: the serving placeholder of every exported model has a free batch
\* dimension followed by the input shape of the model's first layer, and
\* every request sent has shape (1, 32, 32, 3), which fits that placeholder.
C6_ShapesAgree ==
    /\ \A j \in jobs : \A k \in DOMAIN j.signature :
          /\ j.built
          /\ Len(j.signature[k]) = 4
          /\ j.signature[k][1] = None
          /\ Tail(j.signature[k]) = j.input_shape
          /\ j.input_shape = <<32, 32, 3>>
    /\ \A i \in 1..Len(predictions) :
          /\ predictions[i].shape = <<1, 32, 32, 3>>
          /\ \A j \in jobs : \A k \in DOMAIN j.signature :
                Fits(predictions[i].shape, j.signature[k])

\* a request of shape (1, 32, 32, 3) has been answered by a deployed model
C6_Witness ==
    /\ Returned("predict")
    /\ \E j \in jobs : j.status = "Completed"
    /\ \E i \in 1..Len(predictions) :
          predictions[i].shape = <<1, 32, 32, 3>> /\ predictions[i].response # Invalid

\* C7: once a cell raises the run stops at that cell: no cell is started
\* after a failed one, no cell is started twice, and when predict raises
\* after deploy returned, delete_endpoint is not started and the endpoint
\* deploy created still exists.
C7_NoRecovery ==
    /\ \A i \in 1..(Len(calls) - 1) : calls[i].ok
    /\ \A i, k \in 1..Len(calls) : calls[i].op = calls[k].op => i = k
    /\ raised <=> (calls # << >> /\ ~calls[Len(calls)].ok)
    /\ raised => CodeCells[pc] = calls[Len(calls)].op
    /\ (Returned("deploy") /\ Called("predict") /\ ~Returned("predict")) =>
          /\ ~Called("delete_endpoint")
          /\ predictor[1].endpoint \in endpoints
          /\ deleted = {}

\* predict raised after deploy returned: the endpoint is left behind
C7_Witness ==
    /\ raised
    /\ Returned("deploy")
    /\ Called("predict")
    /\ ~Returned("predict")
    /\ predictor[1].endpoint \in endpoints

\* C8: every submitted job carries both keys keras_model_fn reads, so the
\* model is built, and its optimizer has learning_rate 1e-4 and decay 1e-6.
C8_HyperparametersCovered ==
    \A j \in jobs :
        /\ {"learning_rate", "decay"} \subseteq DOMAIN j.hyperparameters
        /\ ReadKeys \subseteq DOMAIN j.hyperparameters
        /\ j.built
        /\ j.opt = [learning_rate |-> <<1, -4>>, decay |-> <<1, -6>>]

\* a submitted job has built its model and completed
C8_Witness ==
    \E j \in jobs : j.status = "Completed" /\ j.built /\ j.opt.decay = <<1, -6>>

----------------------------------------------------------------------------
(* Properties of the layer stack (ModelSpec) *)

\* the spatial side after each of the first twelve layers, for a side of 32
SideAfter == <<32, 32, 30, 30, 15, 15, 15, 15, 13, 13, 6, 6>>

\* C9: for a 32x32x3 input no layer fails, the spatial sides go
\* 32 -> 32 -> 30 -> 15 -> 15 -> 13 -> 6, Flatten yields 2304 features and the
\* whole stack yields 10 scores.
C9_LayerStackShapes ==
    image = <<32, 32, 3>> =>
        /\ tensor # Invalid
        /\ \A i \in 1..Len(tensor) : tensor[i] >= 1
        /\ layer_no \in 1..12 =>
              tensor[1] = SideAfter[layer_no] /\ tensor[2] = SideAfter[layer_no]
        /\ layer_no = 12 => tensor = <<6, 6, 64>>
        /\ layer_no = 13 => tensor = <<2304>>
        /\ layer_no >= 17 => tensor = <<10>>

\* the whole stack has been applied to a 32x32x3 image
C9_Witness ==
    /\ image = <<32, 32, 3>>
    /\ layer_no = Len(KerasLayers)
    /\ tensor = <<10>>

====
